---- MODULE Spec2Model ----
(***************************************************************************)
(* PyOpenWorm neuron.py: Neuron, NeuronProxy, the Neighbor property and    *)
(* the ConnectionProperty, over a store of persisted Connection relations. *)
(*                                                                         *)
(* A relation is a record [pre, post, syntype, ctx].  The store is the     *)
(* sequence of persisted relations in the order a query returns them.      *)
(* Entities, proxies and property objects live in the sequences objs,      *)
(* nprops and cprops; an object refers to its properties by index, so that *)
(* two objects sharing one property object is expressible.                 *)
(***************************************************************************)
EXTENDS Integers, Sequences, FiniteSets, TLC

VARIABLES
    store,      \* persisted relations, in the store's result order
    objs,       \* Neuron entities and the results of contextualize
    nprops,     \* Neighbor property objects
    cprops,     \* ConnectionProperty objects
    raised,     \* the exception the last operation ended with, or "none"
    gens        \* the sequences get calls have returned, each with its position

vars == <<store, objs, nprops, cprops, raised, gens>>

----------------------------------------------------------------------------
(* Bounds of the model. *)

MaxStore == 2
MaxObjs == 3
MaxConns == 2
MaxFootprint == 4

(* Value domains.  Relations run between the neurons of Names; the neuron  *)
(* that is built as an entity, and whose properties are queried, is AVAL   *)
(* (the other name occurs as the far endpoint of its relations).           *)

Names == {"AVAL", "AVBL"}
EntityNames == {"AVAL"}
Contexts == {"ctx1", "ctx2"}
NoCtx == "None"
SynTypes == {"send", "gapJunction"}
NoKind == "None"
SetKinds == {NoKind}
Unbound == "*"
NoProp == 0
Directions == {"pre", "post", "either", "unknown"}

Relations == [pre : Names, post : Names, syntype : SynTypes, ctx : Contexts]

(* Keyword filters a caller passes to get/count: the syntype keyword. *)
Filters == [syntype : SynTypes \cup {Unbound}]

NoFilter == [syntype |-> Unbound]

----------------------------------------------------------------------------
(* Sequence helpers. *)

Range(s) == {s[i] : i \in 1..Len(s)}

----------------------------------------------------------------------------
(* The Relation Store and the Connection type (PyOpenWorm.connection).     *)

(* A query pattern binds any subset of pre, post and syntype. *)
Pattern(pre, post, kw) == [pre |-> pre, post |-> post, syntype |-> kw.syntype]

Matches(r, pat) ==
    /\ pat.pre \in {Unbound, r.pre}
    /\ pat.post \in {Unbound, r.post}
    /\ pat.syntype \in {Unbound, r.syntype}

(* A context-bound query sees the relations of its context only; a query   *)
(* built from the uncontextualized Connection type is not narrowed to any  *)
(* context.                                                                *)
InScope(r, ctx) == ctx = NoCtx \/ r.ctx = ctx

(* Connection(...).load(): the persisted relations matching the pattern,   *)
(* in the store's order.                                                   *)
Load(pat, ctx) ==
    LET Hit(r) == Matches(r, pat) /\ InScope(r, ctx)
    IN  SelectSeq(store, Hit)

(* Connection.contextualize(context): the Connection type bound to context *)
ContextualizeType(tctx, ctx) == ctx

(* Constructing a Connection from keywords: a new relation object that    *)
(* is held by its creator only (nothing is written to the store).          *)
NewConnection(tctx, pre, post, kind) ==
    [pre |-> pre, post |-> post, syntype |-> kind, ctx |-> tctx]

(* c.post_cell.get() of a relation object: its post endpoint(s). *)
PostCellGet(c) == <<c.post>>

(* c.triples(): the facts of one relation object. *)
ConnTriples(c) ==
    <<  <<c, "pre_cell", c.pre>>, <<c, "post_cell", c.post>> >>
    \o (IF c.syntype = NoKind THEN <<>> ELSE << <<c, "syntype", c.syntype>> >>)

RECURSIVE Flatten(_)
Flatten(ss) == IF ss = <<>> THEN <<>> ELSE Head(ss) \o Flatten(Tail(ss))

----------------------------------------------------------------------------
(* Neighbor property. *)

(* Neighbor.get merging the staged and the persisted neighbours. *)
NeighborGetMerged(p, kw) ==
    LET self == nprops[p]
        c == Load(Pattern(self.owner, Unbound, kw),
                  ContextualizeType(self.conntype, self.context))
    IN  Flatten([i \in 1..Len(self.conns) |-> PostCellGet(self.conns[i])])
        \o [i \in 1..Len(c) |-> c[i].post]

(* Neighbor.get applying the caller's filters to the staged relations. *)
NeighborGetCacheFiltered(p, kw) ==
    LET self == nprops[p]
        Wanted(c) == kw.syntype \in {Unbound, c.syntype}
        kept == SelectSeq(self.conns, Wanted)
    IN  IF Len(self.conns) > 0
        THEN Flatten([i \in 1..Len(kept) |-> PostCellGet(kept[i])])
        ELSE LET c == Load(Pattern(self.owner, Unbound, kw),
                           ContextualizeType(self.conntype, self.context))
             IN  [i \in 1..Len(c) |-> c[i].post]

(* Neighbor.get querying with the Connection type as bound at construction, *)
(* not with the property's attached context.                               *)
NeighborGetUnscoped(p, kw) ==
    LET self == nprops[p]
    IN  IF Len(self.conns) > 0
        THEN Flatten([i \in 1..Len(self.conns) |-> PostCellGet(self.conns[i])])
        ELSE LET c == Load(Pattern(self.owner, Unbound, kw), self.conntype)
             IN  [i \in 1..Len(c) |-> c[i].post]

(* Neighbor.get with keyword filters kw, drained to the end. *)
NeighborGet(p, kw) ==
    LET self == nprops[p]
    IN  IF Len(self.conns) > 0
        THEN Flatten([i \in 1..Len(self.conns) |-> PostCellGet(self.conns[i])])
        ELSE LET c == Load(Pattern(self.owner, Unbound, kw),
                           ContextualizeType(self.conntype, self.context))
             IN  [i \in 1..Len(c) |-> c[i].post]

(* triples() answering from the store when the cache is empty, as get does. *)
NeighborTriplesStoreFallback(p) ==
    LET self == nprops[p]
        c == Load(Pattern(self.owner, Unbound, NoFilter),
                  ContextualizeType(self.conntype, self.context))
    IN  IF Len(self.conns) > 0
        THEN Flatten([i \in 1..Len(self.conns) |-> ConnTriples(self.conns[i])])
        ELSE Flatten([i \in 1..Len(c) |-> ConnTriples(c[i])])

(* Neighbor.triples() *)
NeighborTriples(p) ==
    Flatten([i \in 1..Len(nprops[p].conns) |-> ConnTriples(nprops[p].conns[i])])

----------------------------------------------------------------------------
(* ConnectionProperty. *)

(* The fan-out issuing the post query before the pre query. *)
FanOutPostFirst(owner, direction, kw) ==
    IF direction = "pre" THEN << Pattern(owner, Unbound, kw) >>
    ELSE IF direction = "post" THEN << Pattern(Unbound, owner, kw) >>
    ELSE IF direction = "either"
         THEN << Pattern(Unbound, owner, kw), Pattern(owner, Unbound, kw) >>
    ELSE <<>>

(* The fan-out with an unrecognized direction falling back to 'pre'. *)
FanOutDefaultPre(owner, direction, kw) ==
    IF direction = "post" THEN << Pattern(Unbound, owner, kw) >>
    ELSE IF direction = "either"
         THEN << Pattern(owner, Unbound, kw), Pattern(Unbound, owner, kw) >>
    ELSE << Pattern(owner, Unbound, kw) >>

(* The sub-queries of one get/count call, in the order they are issued. *)
FanOut(owner, direction, kw) ==
    IF direction = "pre" THEN << Pattern(owner, Unbound, kw) >>
    ELSE IF direction = "post" THEN << Pattern(Unbound, owner, kw) >>
    ELSE IF direction = "either"
         THEN << Pattern(owner, Unbound, kw), Pattern(Unbound, owner, kw) >>
    ELSE <<>>

(* ConnectionProperty.get answering from the registered relations when     *)
(* there are any, as Neighbor.get does.                                    *)
ConnectionGetCacheFirst(p, direction, kw) ==
    LET self == cprops[p]
        c == FanOut(self.owner, direction, kw)
    IN  IF Len(self.conns) > 0 THEN self.conns
        ELSE Flatten([i \in 1..Len(c) |-> Load(c[i], self.conntype)])

(* ConnectionProperty.get for one direction and filters, drained.  The     *)
(* queries are built from self._conntype, the Connection type as imported. *)
ConnectionGet(p, direction, kw) ==
    LET self == cprops[p]
        c == FanOut(self.owner, direction, kw)
    IN  Flatten([i \in 1..Len(c) |-> Load(c[i], self.conntype)])

(* ConnectionProperty.count has syntype as a named parameter: a syntype    *)
(* keyword binds the named parameter, which the body never reads; only the *)
(* remaining keywords reach the queries.                                   *)
CountKwargs(kw) == [kw EXCEPT !.syntype = Unbound]

RECURSIVE SumLen(_)
SumLen(ss) == IF ss = <<>> THEN 0 ELSE Len(Head(ss)) + SumLen(Tail(ss))

(* count over the distinct relations matched. *)
ConnectionCountDistinct(p, direction, kw) ==
    LET self == cprops[p]
        conntype == ContextualizeType(self.conntype, self.context)
        c == FanOut(self.owner, direction, CountKwargs(kw))
    IN  Cardinality(Range(Flatten([i \in 1..Len(c) |-> Load(c[i], conntype)])))

ConnectionCount(p, direction, kw) ==
    LET self == cprops[p]
        conntype == ContextualizeType(self.conntype, self.context)
        c == FanOut(self.owner, direction, CountKwargs(kw))
    IN  SumLen([i \in 1..Len(c) |-> Load(c[i], conntype)])

(* ConnectionProperty.triples() *)
ConnectionTriples(p) ==
    Flatten([i \in 1..Len(cprops[p].conns) |-> ConnTriples(cprops[p].conns[i])])

----------------------------------------------------------------------------
(* Entities and proxies. *)

(* The attribute lookups o.neighbor and o.connection: NeuronProxy answers  *)
(* with the property it holds, a Neuron with the property attached to it,  *)
(* and a plain contextualized entity forwards to the entity it wraps.      *)
NeighborOf(o) ==
    IF objs[o].kind = "Ctxd" THEN objs[objs[o].wrapped].neighbor
    ELSE objs[o].neighbor

ConnectionOf(o) ==
    IF objs[o].kind = "Ctxd" THEN objs[objs[o].wrapped].connection
    ELSE objs[o].connection

Objects == 1..Len(objs)

HasNeighbor == {o \in Objects : NeighborOf(o) # NoProp}

Neurons == {o \in Objects : objs[o].kind = "Neuron"}

(* Calling a property with no arguments reads it: get() with its defaults. *)
(* The persisted relations of the store are pairwise distinct, so          *)
(* collecting the result into a set drops none of them.                    *)
ConnectionCall(p) == ConnectionGet(p, "pre", NoFilter)

(* Neuron.GJ_degree *)
GJ_degree(o) ==
    LET IsGJ(c) == c.syntype = "gapJunction"
    IN  Len(SelectSeq(ConnectionCall(objs[o].connection), IsGJ))

(* Syn_degree over the outgoing relations only. *)
Syn_degreeOutgoing(o) ==
    LET IsSend(c) == c.syntype = "send"
    IN  Len(SelectSeq(ConnectionGet(objs[o].connection, "pre", NoFilter), IsSend))

(* Neuron.Syn_degree *)
Syn_degree(o) ==
    LET IsSend(c) == c.syntype = "send"
    IN  Len(SelectSeq(ConnectionGet(objs[o].connection, "either", NoFilter), IsSend))

(* Neurons whose __init__ has not attached the two properties yet.  The     *)
(* program is single-threaded: until the constructor returns, only what    *)
(* the constructor itself runs can happen.                                 *)
Constructing == {o \in Neurons : objs[o].neighbor = NoProp}

(* The number of relations held staged in the caches. *)
Staged ==
    SumLen([i \in 1..Len(nprops) |-> nprops[i].conns])
    + SumLen([i \in 1..Len(cprops) |-> cprops[i].conns])

(* The objects alive: entities, proxies and the sequences of get calls. *)
Allocated == Len(objs) + Len(gens)

Footprint == Len(store) + Allocated + Staged

----------------------------------------------------------------------------
(* Operations. *)

Init ==
    /\ store = <<>>
    /\ objs = <<>>
    /\ nprops = <<>>
    /\ cprops = <<>>
    /\ raised = "none"
    /\ gens = <<>>

(* The persistence step of the store: one more relation becomes persisted. *)
(* A relation is persisted once; the store holds no duplicates.            *)
Persist(r) ==
    /\ Constructing = {}
    /\ Len(store) < MaxStore
    /\ Footprint < MaxFootprint
    /\ r \notin Range(store)
    /\ store' = Append(store, r)
    /\ raised' = "none"
    /\ UNCHANGED <<objs, nprops, cprops, gens>>

(* Neuron.__init__ up to the end of the base initialisation: the entity    *)
(* exists and has no neighbor or connection property yet.                  *)
NeuronNew(name) ==
    /\ Constructing = {}
    /\ Allocated < MaxObjs
    /\ Footprint < MaxFootprint
    /\ objs' = Append(objs, [kind |-> "Neuron", name |-> name, context |-> NoCtx,
                             neighbor |-> NoProp, connection |-> NoProp,
                             wrapped |-> 0])
    /\ raised' = "none"
    /\ UNCHANGED <<store, nprops, cprops, gens>>

(* Neighbor.__init__ and ConnectionProperty.__init__ *)
NeighborInit(owner) ==
    [owner |-> owner.name, context |-> owner.context,
     conns |-> <<>>, conntype |-> ContextualizeType(NoCtx, owner.context)]

ConnectionPropertyInit(owner) ==
    [owner |-> owner.name, context |-> owner.context,
     conns |-> <<>>, conntype |-> NoCtx]

(* The rest of Neuron.__init__: the two properties are built and attached. *)
NeuronInitProperties(o) ==
    /\ o \in Neurons
    /\ objs[o].neighbor = NoProp
    /\ nprops' = Append(nprops, NeighborInit(objs[o]))
    /\ cprops' = Append(cprops, ConnectionPropertyInit(objs[o]))
    /\ objs' = [objs EXCEPT ![o].neighbor = Len(nprops) + 1,
                            ![o].connection = Len(cprops) + 1]
    /\ raised' = "none"
    /\ UNCHANGED <<store, gens>>

(* contextualize(context) of a property: a property object of its own      *)
(* bound to context; it starts with the staged relations of the property   *)
(* it was made from (carry) or with none.                                  *)
PropertyContextualize(prop, ctx, carry) ==
    [prop EXCEPT !.context = ctx,
                 !.conns = IF carry THEN prop.conns ELSE <<>>]

(* contextualize(context) of the base entity. *)
BaseContextualize(o, ctx) ==
    [kind |-> "Ctxd", name |-> objs[o].name, context |-> ctx,
     neighbor |-> NoProp, connection |-> NoProp, wrapped |-> o]

(* contextualize handing the entity's own property objects to the proxy. *)
ContextualizeSharing(o, ctx) ==
    /\ o \in Neurons
    /\ Constructing \subseteq {o}
    /\ Allocated < MaxObjs
    /\ Footprint < MaxFootprint
    /\ LET res == BaseContextualize(o, ctx)
       IN  IF objs[o].neighbor # NoProp
           THEN objs' = Append(objs, [res EXCEPT !.kind = "NeuronProxy",
                                                 !.neighbor = objs[o].neighbor,
                                                 !.connection = objs[o].connection])
           ELSE objs' = Append(objs, res)
    /\ raised' = "none"
    /\ UNCHANGED <<store, nprops, cprops, gens>>

(* contextualize re-binding the entity and its properties in place. *)
ContextualizeInPlace(o, ctx) ==
    /\ o \in Neurons
    /\ Constructing \subseteq {o}
    /\ Allocated < MaxObjs
    /\ Footprint < MaxFootprint
    /\ LET res == BaseContextualize(o, ctx)
       IN  IF objs[o].neighbor # NoProp
           THEN /\ nprops' = [nprops EXCEPT ![objs[o].neighbor].context = ctx]
                /\ cprops' = [cprops EXCEPT ![objs[o].connection].context = ctx]
                /\ objs' = Append([objs EXCEPT ![o].context = ctx],
                                  [res EXCEPT !.kind = "NeuronProxy",
                                              !.neighbor = objs[o].neighbor,
                                              !.connection = objs[o].connection])
           ELSE /\ objs' = Append(objs, res)
                /\ UNCHANGED <<nprops, cprops>>
    /\ raised' = "none"
    /\ UNCHANGED <<store, gens>>

(* contextualize wrapping the result in a proxy whether or not the entity  *)
(* has its properties.                                                     *)
ContextualizeAlwaysProxy(o, ctx) ==
    /\ o \in Neurons
    /\ Constructing \subseteq {o}
    /\ Allocated < MaxObjs
    /\ Footprint < MaxFootprint
    /\ LET res == BaseContextualize(o, ctx)
       IN  IF objs[o].neighbor # NoProp
           THEN /\ nprops' = Append(nprops,
                       PropertyContextualize(nprops[objs[o].neighbor], ctx, FALSE))
                /\ cprops' = Append(cprops,
                       PropertyContextualize(cprops[objs[o].connection], ctx, FALSE))
                /\ objs' = Append(objs, [res EXCEPT !.kind = "NeuronProxy",
                                                    !.neighbor = Len(nprops) + 1,
                                                    !.connection = Len(cprops) + 1])
           ELSE /\ objs' = Append(objs, [res EXCEPT !.kind = "NeuronProxy"])
                /\ UNCHANGED <<nprops, cprops>>
    /\ raised' = "none"
    /\ UNCHANGED <<store, gens>>

(* Neuron.contextualize *)
Contextualize(o, ctx) ==
    /\ o \in Neurons
    /\ Constructing \subseteq {o}
    /\ Allocated < MaxObjs
    /\ Footprint < MaxFootprint
    /\ LET res == BaseContextualize(o, ctx)
       IN  IF objs[o].neighbor # NoProp
           THEN \E carry \in BOOLEAN :
                /\ Staged + (IF carry
                             THEN Len(nprops[objs[o].neighbor].conns)
                                  + Len(cprops[objs[o].connection].conns)
                             ELSE 0) + Len(store) + Len(objs) < MaxFootprint
                /\ nprops' = Append(nprops,
                       PropertyContextualize(nprops[objs[o].neighbor], ctx, carry))
                /\ cprops' = Append(cprops,
                       PropertyContextualize(cprops[objs[o].connection], ctx, carry))
                /\ objs' = Append(objs, [res EXCEPT !.kind = "NeuronProxy",
                                                    !.neighbor = Len(nprops) + 1,
                                                    !.connection = Len(cprops) + 1])
           ELSE /\ objs' = Append(objs, res)
                /\ UNCHANGED <<nprops, cprops>>
    /\ raised' = "none"
    /\ UNCHANGED <<store, gens>>

(* The relation Neighbor.set builds, appends and returns. *)
NeighborSetResult(o, other, kind) ==
    LET self == nprops[NeighborOf(o)]
    IN  NewConnection(self.conntype, self.owner, other, kind)

(* Neighbor.set writing the new relation to the store as well. *)
NeighborSetPersisting(o, other, kind) ==
    /\ Constructing = {}
    /\ o \in HasNeighbor
    /\ Len(nprops[NeighborOf(o)].conns) < MaxConns
    /\ Footprint < MaxFootprint
    /\ LET p == NeighborOf(o)
           self == nprops[p]
           c == NewConnection(self.conntype, self.owner, other, kind)
       IN  /\ nprops' = [nprops EXCEPT ![p].conns = Append(self.conns, c)]
           /\ store' = Append(store, [c EXCEPT !.syntype = "send",
                                               !.ctx = "ctx1"])
    /\ raised' = "none"
    /\ UNCHANGED <<objs, cprops, gens>>

(* Neighbor.set *)
NeighborSet(o, other, kind) ==
    /\ Constructing = {}
    /\ o \in HasNeighbor
    /\ Len(nprops[NeighborOf(o)].conns) < MaxConns
    /\ Footprint < MaxFootprint
    /\ LET p == NeighborOf(o)
           self == nprops[p]
           c == NewConnection(self.conntype, self.owner, other, kind)
       IN  nprops' = [nprops EXCEPT ![p].conns = Append(self.conns, c)]
    /\ raised' = "none"
    /\ UNCHANGED <<store, objs, cprops, gens>>

(* The values a caller hands to ConnectionProperty.set: relation objects   *)
(* it has built, and a value that is no Connection.                        *)
NotAConnection == [name |-> "AVBL"]

ConnValues == {NewConnection(NoCtx, pre, post, kind) :
                   pre \in EntityNames, post \in Names, kind \in {"send"}}

(* set turning a value that is no Connection into one and registering it. *)
ConnectionSetCoercing(o, conn) ==
    /\ Constructing = {}
    /\ o \in HasNeighbor
    /\ LET p == ConnectionOf(o)
           self == cprops[p]
           c == IF conn \notin ConnValues
                THEN NewConnection(NoCtx, self.owner, conn.name, "send")
                ELSE conn
       IN  /\ Len(self.conns) < MaxConns
           /\ Footprint < MaxFootprint
           /\ cprops' = [cprops EXCEPT ![p].conns = Append(self.conns, c)]
           /\ raised' = "none"
           /\ UNCHANGED <<store, objs, nprops, gens>>

(* ConnectionProperty.set *)
ConnectionSet(o, conn) ==
    /\ Constructing = {}
    /\ o \in HasNeighbor
    /\ LET p == ConnectionOf(o)
           self == cprops[p]
       IN  IF conn \notin ConnValues
           THEN /\ raised' = "AssertionError"
                /\ UNCHANGED <<store, objs, nprops, cprops, gens>>
           ELSE /\ Len(self.conns) < MaxConns
                /\ Footprint < MaxFootprint
                /\ cprops' = [cprops EXCEPT ![p].conns = Append(self.conns, conn)]
                /\ raised' = "none"
                /\ UNCHANGED <<store, objs, nprops, gens>>

----------------------------------------------------------------------------
(* The sequences get returns.  get is a generator function: the call runs  *)
(* none of its body, and every pull resumes the body up to its next yield, *)
(* its end, or the exception that ends it.                                 *)

(* The outcomes of a store query: 0 for every load of a pull succeeding,   *)
(* k for the k-th load the pull executes failing in the store.             *)
Fails == 0..2

NewGenerator(kind, p, direction, kw) ==
    [kind |-> kind, prop |-> p, direction |-> direction, kw |-> kw,
     pc |-> "fresh", mode |-> "none", idx |-> 0, lctx |-> NoCtx,
     pending |-> <<>>, queue |-> <<>>, out |-> <<>>]

(* What the loop body yields for the relations a load returned:            *)
(* r.post_cell() in Neighbor.get, r itself in ConnectionProperty.get.      *)
Yields(kind, rs) ==
    IF kind = "Neighbor" THEN [i \in 1..Len(rs) |-> rs[i].post] ELSE rs

(* Generators of the same call that have run to their end. *)
Finished(gen) ==
    {h \in 1..Len(gens) : /\ gens[h].pc = "done"
                          /\ gens[h].kind = gen.kind
                          /\ gens[h].prop = gen.prop
                          /\ gens[h].direction = gen.direction
                          /\ gens[h].kw = gen.kw}

(* get answering from the result of an earlier call of the same get. *)
GetStartMemoized(gen) ==
    IF Finished(gen) # {}
    THEN LET h == CHOOSE h \in Finished(gen) : TRUE
         IN  [gen EXCEPT !.pc = "running", !.mode = "store",
                         !.queue = gens[h].out]
    ELSE IF gen.kind = "Neighbor"
    THEN LET self == nprops[gen.prop]
         IN  IF Len(self.conns) > 0
             THEN [gen EXCEPT !.pc = "running", !.mode = "cache"]
             ELSE [gen EXCEPT !.pc = "running", !.mode = "store",
                       !.lctx = ContextualizeType(self.conntype, self.context),
                       !.pending = << Pattern(self.owner, Unbound, gen.kw) >>]
    ELSE LET self == cprops[gen.prop]
         IN  [gen EXCEPT !.pc = "running", !.mode = "store",
                   !.lctx = self.conntype,
                   !.pending = FanOut(self.owner, gen.direction, gen.kw)]

(* The first pull enters the body: Neighbor.get chooses between its cache  *)
(* and a store query, ConnectionProperty.get builds its list of queries.   *)
GetStart(gen) ==
    IF gen.kind = "Neighbor"
    THEN LET self == nprops[gen.prop]
         IN  IF Len(self.conns) > 0
             THEN [gen EXCEPT !.pc = "running", !.mode = "cache"]
             ELSE [gen EXCEPT !.pc = "running", !.mode = "store",
                       !.lctx = ContextualizeType(self.conntype, self.context),
                       !.pending = << Pattern(self.owner, Unbound, gen.kw) >>]
    ELSE LET self == cprops[gen.prop]
         IN  [gen EXCEPT !.pc = "running", !.mode = "store",
                   !.lctx = self.conntype,
                   !.pending = FanOut(self.owner, gen.direction, gen.kw)]

(* The loops over the queries with a failed load skipped. *)
RECURSIVE StoreStepSkipping(_, _)
StoreStepSkipping(gen, fail) ==
    IF gen.queue # <<>>
    THEN [gen EXCEPT !.queue = Tail(gen.queue),
                     !.out = Append(gen.out, Head(gen.queue))]
    ELSE IF gen.pending = <<>> THEN [gen EXCEPT !.pc = "done"]
    ELSE IF fail = 1
    THEN StoreStepSkipping([gen EXCEPT !.pending = Tail(gen.pending)], 0)
    ELSE StoreStepSkipping(
             [gen EXCEPT !.queue = Yields(gen.kind, Load(Head(gen.pending), gen.lctx)),
                         !.pending = Tail(gen.pending)],
             IF fail > 0 THEN fail - 1 ELSE 0)

(* The loops over the queries and their results, up to the next yield: the *)
(* next result of the running query, else the next query is loaded, else   *)
(* the sequence ends; a load failing in the store ends it with the error.  *)
RECURSIVE StoreStep(_, _)
StoreStep(gen, fail) ==
    IF gen.queue # <<>>
    THEN [gen EXCEPT !.queue = Tail(gen.queue),
                     !.out = Append(gen.out, Head(gen.queue))]
    ELSE IF gen.pending = <<>> THEN [gen EXCEPT !.pc = "done"]
    ELSE IF fail = 1 THEN [gen EXCEPT !.pc = "raised"]
    ELSE StoreStep(
             [gen EXCEPT !.queue = Yields(gen.kind, Load(Head(gen.pending), gen.lctx)),
                         !.pending = Tail(gen.pending)],
             IF fail > 0 THEN fail - 1 ELSE 0)

(* The loop over self._conns, up to the next yield: the list is read in    *)
(* place, position by position.                                            *)
CacheStep(gen) ==
    LET conns == nprops[gen.prop].conns
    IN  IF gen.idx < Len(conns)
        THEN [gen EXCEPT !.idx = gen.idx + 1,
                         !.out = gen.out \o PostCellGet(conns[gen.idx + 1])]
        ELSE [gen EXCEPT !.pc = "done"]

(* Every pull choosing anew between the cache and the store. *)
ResumeRechecking(gen, fail) ==
    LET s == IF gen.pc = "fresh" THEN GetStart(gen) ELSE gen
        t == IF gen.kind = "Neighbor" /\ Len(nprops[gen.prop].conns) > 0
             THEN [s EXCEPT !.mode = "cache"] ELSE s
    IN  IF t.mode = "cache" THEN CacheStep(t) ELSE StoreStep(t, fail)

(* One pull of a sequence. *)
Resume(gen, fail) ==
    LET s == IF gen.pc = "fresh" THEN GetStart(gen) ELSE gen
    IN  IF s.mode = "cache" THEN CacheStep(s) ELSE StoreStep(s, fail)

(* Calling Neighbor.get or ConnectionProperty.get hands back a new        *)
(* sequence; nothing of the body has run yet.                              *)
NeighborGetCall(o, kw) ==
    /\ Constructing = {}
    /\ o \in HasNeighbor
    /\ Allocated < MaxObjs
    /\ Footprint < MaxFootprint
    /\ gens' = Append(gens, NewGenerator("Neighbor", NeighborOf(o), "pre", kw))
    /\ raised' = "none"
    /\ UNCHANGED <<store, objs, nprops, cprops>>

ConnectionGetCall(o, direction, kw) ==
    /\ Constructing = {}
    /\ o \in HasNeighbor
    /\ Allocated < MaxObjs
    /\ Footprint < MaxFootprint
    /\ gens' = Append(gens, NewGenerator("Connection", ConnectionOf(o), direction, kw))
    /\ raised' = "none"
    /\ UNCHANGED <<store, objs, nprops, cprops>>

(* next() on a sequence that has not ended. *)
Pull(g, fail) ==
    /\ gens[g].pc \in {"fresh", "running"}
    /\ gens' = [gens EXCEPT ![g] = Resume(gens[g], fail)]
    /\ raised' = IF gens'[g].pc = "raised" THEN "StoreQueryError" ELSE "none"
    /\ UNCHANGED <<store, objs, nprops, cprops>>

(* ConnectionProperty.count with the store failing as in Fails: the error  *)
(* of a failed load leaves count before anything is returned.              *)
NoValue == "NoValue"

ConnectionCountOutcome(p, direction, kw, fail) ==
    LET self == cprops[p]
        c == FanOut(self.owner, direction, CountKwargs(kw))
    IN  IF fail \in 1..Len(c)
        THEN [raised |-> "StoreQueryError", value |-> NoValue]
        ELSE [raised |-> "none", value |-> ConnectionCount(p, direction, kw)]

Next ==
    \/ \E r \in Relations : Persist(r)
    \/ \E name \in EntityNames : NeuronNew(name)
    \/ \E o \in Objects : NeuronInitProperties(o)
    \/ \E o \in Objects, ctx \in Contexts : Contextualize(o, ctx)
    \/ \E o \in Objects, other \in Names, kind \in SetKinds :
           NeighborSet(o, other, kind)
    \/ \E o \in Objects, conn \in ConnValues \cup {NotAConnection} :
           ConnectionSet(o, conn)

Spec == Init /\ [][Next]_vars

(* The program with the sequences of its get calls pulled step by step,    *)
(* over a store of chemical synapses.                                      *)
SendRelations == {r \in Relations : r.syntype = "send"}

GetFilters == {NoFilter}

GetDirections == {"pre", "post", "either"}

GenNext ==
    \/ \E r \in SendRelations : Persist(r)
    \/ \E name \in EntityNames : NeuronNew(name)
    \/ \E o \in Objects : NeuronInitProperties(o)
    \/ \E o \in Objects, ctx \in Contexts : Contextualize(o, ctx)
    \/ \E o \in Objects, other \in Names, kind \in SetKinds :
           NeighborSet(o, other, kind)
    \/ \E o \in Objects, conn \in ConnValues : ConnectionSet(o, conn)
    \/ \E o \in Objects, kw \in GetFilters : NeighborGetCall(o, kw)
    \/ \E o \in Objects, d \in GetDirections, kw \in GetFilters :
           ConnectionGetCall(o, d, kw)
    \/ \E g \in 1..Len(gens), fail \in Fails : Pull(g, fail)

GenSpec == Init /\ [][GenNext]_vars

----------------------------------------------------------------------------
(* Properties. *)

HasConnection == {o \in Objects : ConnectionOf(o) # NoProp}

KnownDirections == {"pre", "post", "either"}

(* The post endpoints of the relations a Neighbor property holds staged. *)
CachedPosts(p) == [i \in 1..Len(nprops[p].conns) |-> nprops[p].conns[i].post]

(* Positions of the store whose relation has the given endpoint. *)
PreAt(name) == {i \in 1..Len(store) : store[i].pre = name}
PostAt(name) == {i \in 1..Len(store) : store[i].post = name}

(* How often r occurs in the sequence s. *)
Occurrences(s, r) == Cardinality({i \in 1..Len(s) : s[i] = r})

(* C1 as stated: after Neighbor.set(X) on any entity's neighbor property,  *)
(* get() yields exactly <<X>>, whatever the store and the filters are.     *)
C1_SetThenGetIsExactlyX ==
    [][\A o \in Objects, x \in Names, k \in SetKinds, kw \in Filters :
          NeighborSet(o, x, k) => NeighborGet(NeighborOf(o), kw)' = <<x>>]_vars

(* C1 amended: after Neighbor.set(X), get() yields the post endpoints of   *)
(* all relations staged on that property so far, in staging order and      *)
(* ending with X (so exactly <<X>> when nothing was staged before), and    *)
(* never a persisted neighbour, whatever the store and the filters are.    *)
C1_SetThenGetIsStagedOnly ==
    [][\A o \in Objects, x \in Names, k \in SetKinds, kw \in Filters :
          NeighborSet(o, x, k) =>
              /\ NeighborGet(NeighborOf(o), kw)' = CachedPosts(NeighborOf(o)) \o <<x>>
              /\ (nprops[NeighborOf(o)].conns = <<>> =>
                      NeighborGet(NeighborOf(o), kw)' = <<x>>)]_vars

(* C1 witness: an entity with a persisted neighbour has staged one other   *)
(* neighbour, and get() yields the staged one alone.                       *)
C1_Witness ==
    \E o \in HasNeighbor :
        LET p == NeighborOf(o)
        IN  /\ Len(nprops[p].conns) = 1
            /\ \E i \in PreAt(nprops[p].owner) :
                   /\ InScope(store[i], nprops[p].context)
                   /\ store[i].post # nprops[p].conns[1].post
            /\ NeighborGet(p, NoFilter) = <<nprops[p].conns[1].post>>

(* C2: count('either') is count('pre') + count('post') for every owner,    *)
(* store and filter; every relation touching the owner is counted once per *)
(* endpoint it touches with, so a self-loop on the owner counts twice.     *)
C2_EitherIsPrePlusPost ==
    \A o \in HasConnection, kw \in Filters :
        LET p == ConnectionOf(o)
            self == cprops[p]
            Scoped(S) == {i \in S : InScope(store[i], self.context)}
        IN  /\ ConnectionCount(p, "either", kw)
                   = ConnectionCount(p, "pre", kw) + ConnectionCount(p, "post", kw)
            /\ ConnectionCount(p, "either", kw)
                   = Cardinality(Scoped(PreAt(self.owner) \cup PostAt(self.owner)))
                     + Cardinality(Scoped(PreAt(self.owner) \cap PostAt(self.owner)))

(* C2 witness: the store holds a self-loop on the owner and one more       *)
(* relation touching it, and count('either') is 3.                         *)
C2_Witness ==
    \E o \in HasConnection :
        LET p == ConnectionOf(o)
        IN  /\ PreAt(cprops[p].owner) \cap PostAt(cprops[p].owner) # {}
            /\ ConnectionCount(p, "either", NoFilter) = 3
            /\ ConnectionCount(p, "pre", NoFilter) + ConnectionCount(p, "post", NoFilter) = 3

(* C3 as stated: a direction other than pre, post, either behaves as pre,  *)
(* for get and for count.                                                  *)
C3_UnknownDirectionIsPre ==
    \A o \in HasConnection, d \in Directions \ KnownDirections, kw \in Filters :
        LET p == ConnectionOf(o)
        IN  /\ ConnectionGet(p, d, kw) = ConnectionGet(p, "pre", kw)
            /\ ConnectionCount(p, d, kw) = ConnectionCount(p, "pre", kw)

(* C3 amended: for a direction other than pre, post, either, get yields    *)
(* the empty sequence and count returns 0, for every store content.        *)
C3_UnknownDirectionIsEmpty ==
    \A o \in HasConnection, d \in Directions \ KnownDirections, kw \in Filters :
        LET p == ConnectionOf(o)
        IN  /\ ConnectionGet(p, d, kw) = <<>>
            /\ ConnectionCount(p, d, kw) = 0

(* C3 witness: the owner has outgoing persisted relations, which get and   *)
(* count report for 'pre', and an unknown direction reports nothing.       *)
C3_Witness ==
    \E o \in HasConnection :
        LET p == ConnectionOf(o)
        IN  /\ Len(ConnectionGet(p, "pre", NoFilter)) = 2
            /\ ConnectionCount(p, "pre", NoFilter) = 2
            /\ ConnectionGet(p, "unknown", NoFilter) = <<>>
            /\ ConnectionCount(p, "unknown", NoFilter) = 0

(* The kind tests of the two degree metrics. *)
GapJunctions(S) == {i \in S : store[i].syntype = "gapJunction"}
Sends(S) == {i \in S : store[i].syntype = "send"}

(* C4: GJ_degree of a neuron is the number of persisted gap-junction        *)
(* relations touching it, as pre or as post endpoint (the relations that   *)
(* direction 'either' iterates, a self-loop taken once or twice).          *)
C4_GJDegreeCountsBothDirections ==
    \A o \in Neurons \cap HasConnection :
        LET name == objs[o].name
            IsGJ(c) == c.syntype = "gapJunction"
        IN  GJ_degree(o) \in
                { Cardinality(GapJunctions(PreAt(name) \cup PostAt(name))),
                  Len(SelectSeq(ConnectionGet(objs[o].connection, "either", NoFilter),
                                IsGJ)) }

(* C5 as stated: Syn_degree counts only relations whose pre endpoint is    *)
(* the neuron; a relation in which it is only the post endpoint never      *)
(* contributes (a self-loop taken once or twice).                          *)
C5_SynDegreeCountsOutgoingOnly ==
    \A o \in Neurons \cap HasConnection :
        LET name == objs[o].name
            IsOutgoingSend(c) == c.syntype = "send" /\ c.pre = name
        IN  Syn_degree(o) \in
                { Cardinality(Sends(PreAt(name))),
                  Len(SelectSeq(ConnectionGet(objs[o].connection, "either", NoFilter),
                                IsOutgoingSend)) }

(* C5 amended: Syn_degree counts every relation that direction 'either'    *)
(* yields and whose sub-type tag is 'send': the outgoing ones and the      *)
(* incoming ones alike, a self-loop twice; a relation in which the neuron  *)
(* is only the post endpoint contributes exactly when its tag is 'send'.   *)
C5_SynDegreeCountsSendBothDirections ==
    \A o \in Neurons \cap HasConnection :
        LET name == objs[o].name
        IN  Syn_degree(o) = Cardinality(Sends(PreAt(name)))
                            + Cardinality(Sends(PostAt(name)))

(* C5 witness: one outgoing and one incoming relation tagged 'send', and   *)
(* Syn_degree is 2.                                                        *)
C5_Witness ==
    \E o \in Neurons \cap HasConnection :
        LET name == objs[o].name
        IN  /\ Sends(PreAt(name) \ PostAt(name)) # {}
            /\ Sends(PostAt(name) \ PreAt(name)) # {}
            /\ Syn_degree(o) = 2

(* The position of a persisted relation in the store. *)
Pos(r) == CHOOSE i \in 1..Len(store) : store[i] = r

InStoreOrder(s) == \A i, j \in 1..Len(s) : i < j => Pos(s[i]) < Pos(s[j])

(* C6: get('either') is the get('pre') results followed by the get('post') *)
(* results; each sub-query yields its matches in the store's order;        *)
(* nothing is deduplicated, a self-loop on the owner is yielded twice.     *)
C6_EitherIsPreThenPost ==
    \A o \in HasConnection, kw \in Filters :
        LET p == ConnectionOf(o)
            name == cprops[p].owner
            pre == ConnectionGet(p, "pre", kw)
            post == ConnectionGet(p, "post", kw)
            either == ConnectionGet(p, "either", kw)
            Wanted(S) == {store[i] : i \in {j \in S : kw.syntype \in {Unbound, store[j].syntype}}}
        IN  /\ either = pre \o post
            /\ Range(pre) = Wanted(PreAt(name)) /\ InStoreOrder(pre)
            /\ Range(post) = Wanted(PostAt(name)) /\ InStoreOrder(post)
            /\ \A r \in Wanted(PreAt(name) \cap PostAt(name)) : Occurrences(either, r) = 2
            /\ \A r \in Range(either) : r.pre # r.post => Occurrences(either, r) = 1

(* C6 witness: a self-loop on the owner and another relation are           *)
(* persisted, pre and post results differ, and 'either' yields three.      *)
C6_Witness ==
    \E o \in HasConnection :
        LET p == ConnectionOf(o)
            pre == ConnectionGet(p, "pre", NoFilter)
            post == ConnectionGet(p, "post", NoFilter)
        IN  /\ pre # <<>> /\ post # <<>> /\ pre # post
            /\ Len(ConnectionGet(p, "either", NoFilter)) = 3
            /\ \E r \in Range(pre) : r.pre = r.post

(* C9: count returns the number of relations get yields for the same       *)
(* owner, direction, kind, filters, context and store.                     *)
C9_CountIsLengthOfGet ==
    \A o \in HasConnection, d \in KnownDirections, kw \in Filters :
        ConnectionCount(ConnectionOf(o), d, kw)
            = Len(ConnectionGet(ConnectionOf(o), d, kw))

(* C10: get yields no persisted relation outside the context the property  *)
(* is bound to.                                                            *)
C10_GetStaysInContext ==
    \A o \in HasConnection, d \in KnownDirections, kw \in Filters :
        LET p == ConnectionOf(o)
        IN  \A r \in Range(ConnectionGet(p, d, kw)) : InScope(r, cprops[p].context)

Proxies == {o \in Objects : objs[o].kind = "NeuronProxy"}

(* Two proxies made from the same entity with two different contexts. *)
Siblings(o, q) ==
    /\ o \in Proxies /\ q \in Proxies /\ o # q
    /\ objs[o].wrapped = objs[q].wrapped
    /\ objs[o].context # objs[q].context

(* What the properties of object q answer: get, count and triples. *)
Answers(q) ==
    [nget |-> [kw \in Filters |-> NeighborGet(NeighborOf(q), kw)],
     ntriples |-> NeighborTriples(NeighborOf(q)),
     cget |-> [d \in Directions, kw \in Filters |->
                   ConnectionGet(ConnectionOf(q), d, kw)],
     ccount |-> [d \in Directions, kw \in Filters |->
                   ConnectionCount(ConnectionOf(q), d, kw)],
     ctriples |-> ConnectionTriples(ConnectionOf(q))]

(* A set call through the neighbor or the connection property of o. *)
SetThrough(o) ==
    \/ \E x \in Names, k \in SetKinds : NeighborSet(o, x, k)
    \/ \E conn \in ConnValues : ConnectionSet(o, conn)

(* C7: two proxies of one entity for two different contexts share no cache *)
(* state: they hold different property objects, and a set call through a   *)
(* property of one changes neither the caches nor the get, count and       *)
(* triples answers of the other's properties.                              *)
C7_SiblingProxiesShareNoCache ==
    [][\A o \in Objects, q \in Objects :
          Siblings(o, q) =>
              /\ NeighborOf(o) # NeighborOf(q)
              /\ ConnectionOf(o) # ConnectionOf(q)
              /\ SetThrough(o) =>
                     /\ nprops'[NeighborOf(q)] = nprops[NeighborOf(q)]
                     /\ cprops'[ConnectionOf(q)] = cprops[ConnectionOf(q)]
                     /\ Answers(q)' = Answers(q)]_vars

(* C7 witness: two proxies of one entity for two contexts; a relation has  *)
(* been staged through one of them and the other's triples() is empty.     *)
C7_Witness ==
    \E o \in Objects, q \in Objects :
        /\ Siblings(o, q)
        /\ NeighborTriples(NeighborOf(o)) # <<>>
        /\ NeighborTriples(NeighborOf(q)) = <<>>
        /\ NeighborGet(NeighborOf(o), NoFilter) # NeighborGet(NeighborOf(q), NoFilter)

(* C8: contextualize returns a fresh object (a NeuronProxy with property   *)
(* objects of its own when the entity has its properties) and leaves the   *)
(* original as it was: every existing object (context, property            *)
(* references) and every existing property object (context, cache) is      *)
(* unchanged, and the original answers get, count and triples as before.   *)
C8_ContextualizeLeavesOriginal ==
    [][\A o \in Objects, ctx \in Contexts :
          Contextualize(o, ctx) =>
              /\ Len(objs') = Len(objs) + 1
              /\ objs'[Len(objs')].wrapped = o
              /\ objs'[Len(objs')].context = ctx
              /\ SubSeq(objs', 1, Len(objs)) = objs
              /\ SubSeq(nprops', 1, Len(nprops)) = nprops
              /\ SubSeq(cprops', 1, Len(cprops)) = cprops
              /\ (o \in HasNeighbor =>
                      /\ objs'[Len(objs')].kind = "NeuronProxy"
                      /\ NeighborOf(o)' = NeighborOf(o)
                      /\ ConnectionOf(o)' = ConnectionOf(o)
                      /\ objs'[Len(objs')].neighbor \notin {NeighborOf(q) : q \in Objects}
                      /\ objs'[Len(objs')].connection \notin {ConnectionOf(q) : q \in Objects}
                      /\ Answers(o)' = Answers(o))]_vars

(* C8 witness: an entity with a staged neighbour has been contextualized,  *)
(* and the entity still has no context and its cache.                      *)
C8_Witness ==
    \E o \in Neurons \cap HasNeighbor, q \in Proxies :
        /\ objs[q].wrapped = o
        /\ objs[o].context = NoCtx
        /\ nprops[NeighborOf(o)].context = NoCtx
        /\ nprops[NeighborOf(o)].conns # <<>>
        /\ NeighborOf(q) # NeighborOf(o)

(* C11: triples() of a Neighbor or a ConnectionProperty yields facts of    *)
(* the relations in that property's own cache only, at least one of each,  *)
(* and nothing from the store: with an empty cache it yields the empty     *)
(* sequence, whatever matching relations the store holds.                  *)
C11_TriplesAreCacheOnly ==
    \A o \in HasNeighbor :
        LET n == NeighborOf(o)
            c == ConnectionOf(o)
        IN  /\ nprops[n].conns = <<>> => NeighborTriples(n) = <<>>
            /\ cprops[c].conns = <<>> => ConnectionTriples(c) = <<>>
            /\ \A t \in Range(NeighborTriples(n)) : t[1] \in Range(nprops[n].conns)
            /\ \A t \in Range(ConnectionTriples(c)) : t[1] \in Range(cprops[c].conns)
            /\ \A r \in Range(nprops[n].conns) :
                   \E t \in Range(NeighborTriples(n)) : t[1] = r
            /\ \A r \in Range(cprops[c].conns) :
                   \E t \in Range(ConnectionTriples(c)) : t[1] = r

(* C11 witness: both caches of an object are empty, the store holds a      *)
(* relation that both get calls yield, and both triples() are empty.       *)
C11_Witness ==
    \E o \in HasNeighbor :
        /\ nprops[NeighborOf(o)].conns = <<>>
        /\ cprops[ConnectionOf(o)].conns = <<>>
        /\ NeighborGet(NeighborOf(o), NoFilter) # <<>>
        /\ ConnectionGet(ConnectionOf(o), "pre", NoFilter) # <<>>
        /\ NeighborTriples(NeighborOf(o)) = <<>>
        /\ ConnectionTriples(ConnectionOf(o)) = <<>>

(* C12: ConnectionProperty.set with a value that is no Connection ends     *)
(* with the error of the failed type test and changes nothing: the cache   *)
(* and triples() of the property are as before, the value is not appended, *)
(* as itself or converted.                                                 *)
C12_NonConnectionIsRejected ==
    [][\A o \in Objects :
          ConnectionSet(o, NotAConnection) =>
              /\ raised' = "AssertionError"
              /\ cprops' = cprops
              /\ ConnectionTriples(ConnectionOf(o))' = ConnectionTriples(ConnectionOf(o))
              /\ UNCHANGED <<store, objs, nprops>>]_vars

(* C12 witness: a set call has ended with the error on a property that     *)
(* holds a relation registered before.                                     *)
C12_Witness ==
    /\ raised = "AssertionError"
    /\ \E o \in HasNeighbor : Len(cprops[ConnectionOf(o)].conns) = 1

(* The sequences of ConnectionProperty.get calls. *)
ConnectionGens == {g \in 1..Len(gens) : gens[g].kind = "Connection"}

NeighborGens == {g \in 1..Len(gens) : gens[g].kind = "Neighbor"}

(* s is the start of t. *)
IsPrefix(s, t) == Len(s) <= Len(t) /\ s = SubSeq(t, 1, Len(s))

(* The pull of gen with outcome fail executes a load that fails: the       *)
(* results in hand are used up, and the loads before the failing one       *)
(* return nothing.                                                         *)
LoadFails(gen, fail) ==
    LET s == IF gen.pc = "fresh" THEN GetStart(gen) ELSE gen
    IN  /\ s.mode = "store"
        /\ s.queue = <<>>
        /\ fail \in 1..Len(s.pending)
        /\ \A k \in 1..(fail - 1) : Load(s.pending[k], s.lctx) = <<>>

(* C13 as stated: when a sub-query of the fan-out fails in the store, the  *)
(* caller of get has received no relation of that call (no pre-direction   *)
(* relation when the post sub-query fails), and count returns no count.    *)
C13_FailedSubQueryDeliversNothing ==
    /\ \A g \in ConnectionGens : gens[g].pc = "raised" => gens[g].out = <<>>
    /\ \A p \in 1..Len(cprops), kw \in Filters, fail \in 1..2 :
           ConnectionCountOutcome(p, "either", kw, fail).value = NoValue

(* C13 amended: a sub-query failing in the store ends the get sequence     *)
(* with the store's error at the pull that executes it; that pull delivers *)
(* nothing, and what the caller holds is what the earlier sub-queries      *)
(* delivered: nothing when the first sub-query fails, the pre-direction    *)
(* relations when the post sub-query of 'either' fails.  count ends with   *)
(* the store's error and returns no count, whichever sub-query fails.      *)
C13_FailedSubQueryEndsTheSequence ==
    /\ [][\A g \in 1..Len(gens), fail \in Fails :
             Pull(g, fail) /\ LoadFails(gens[g], fail) =>
                 /\ gens'[g].pc = "raised"
                 /\ raised' = "StoreQueryError"
                 /\ gens'[g].out = gens[g].out]_vars
    /\ [](\A g \in ConnectionGens :
             gens[g].pc = "raised" =>
                 LET self == cprops[gens[g].prop]
                     c == FanOut(self.owner, gens[g].direction, gens[g].kw)
                     done == Len(c) - Len(gens[g].pending)
                 IN  /\ gens[g].pending # <<>>
                     /\ gens[g].queue = <<>>
                     /\ done = 0 => gens[g].out = <<>>
                     /\ done = 1 => IsPrefix(gens[g].out, Load(c[1], self.conntype)))
    /\ [](\A p \in 1..Len(cprops), d \in Directions, kw \in Filters :
             \A fail \in 1..Len(FanOut(cprops[p].owner, d, kw)) :
                 LET c == ConnectionCountOutcome(p, d, kw, fail)
                 IN  c.raised = "StoreQueryError" /\ c.value = NoValue)

(* C13 witness: the post sub-query of an 'either' get has failed after the *)
(* caller received a pre-direction relation.                               *)
C13_Witness ==
    \E g \in ConnectionGens :
        /\ gens[g].direction = "either"
        /\ gens[g].pc = "raised"
        /\ Len(gens[g].pending) = 1
        /\ gens[g].out # <<>>
        /\ raised = "StoreQueryError"

(* What a sequence has delivered and what it holds to deliver next. *)
InHand(gen) ==
    IF gen.mode = "cache"
    THEN gen.out \o SubSeq(CachedPosts(gen.prop), gen.idx + 1,
                           Len(nprops[gen.prop].conns))
    ELSE gen.out \o gen.queue

(* The results the queries not yet loaded have in the current store. *)
ToLoad(gen) ==
    Flatten([i \in 1..Len(gen.pending) |->
                 Yields(gen.kind, Load(gen.pending[i], gen.lctx))])

(* C18: every get call evaluates anew: the first pull of a sequence reads  *)
(* the cache and the store as they are at that pull, so the sequence is    *)
(* what get yields in that state, whatever earlier calls of the same get   *)
(* have yielded.                                                           *)
C18_GetReevaluates ==
    [][\A g \in 1..Len(gens), fail \in Fails :
          Pull(g, fail) /\ gens[g].pc = "fresh" /\ gens'[g].pc # "raised" =>
              IF gens[g].kind = "Neighbor"
              THEN InHand(gens'[g]) \o ToLoad(gens'[g])
                       = NeighborGet(gens[g].prop, gens[g].kw)
              ELSE InHand(gens'[g]) \o ToLoad(gens'[g])
                       = ConnectionGet(gens[g].prop, gens[g].direction, gens[g].kw)]_vars

(* C18 witness: two sequences of the same get call have both ended, and    *)
(* the second has yielded what the first has not.                          *)
C18_Witness ==
    \E g \in 1..Len(gens), h \in 1..Len(gens) :
        /\ g < h
        /\ gens[g].pc = "done" /\ gens[h].pc = "done"
        /\ gens[g].kind = gens[h].kind /\ gens[g].prop = gens[h].prop
        /\ gens[g].direction = gens[h].direction /\ gens[g].kw = gens[h].kw
        /\ gens[g].out # gens[h].out

(* C20: a Neighbor.get sequence is in one mode from its first pull on and  *)
(* yields from one source: in cache mode the staged post endpoints, in     *)
(* staging order; in store mode post endpoints of persisted relations of   *)
(* its query, in the store's order, also when set is called on the         *)
(* property before the sequence has ended.                                 *)
C20_SequenceNeverMixes ==
    /\ [](\A g \in NeighborGens :
             gens[g].pc # "fresh" =>
                 LET self == nprops[gens[g].prop]
                     persisted == Yields("Neighbor",
                                      Load(Pattern(self.owner, Unbound, gens[g].kw),
                                           ContextualizeType(self.conntype, self.context)))
                 IN  \/ /\ gens[g].mode = "cache"
                        /\ gens[g].idx = Len(gens[g].out)
                        /\ IsPrefix(gens[g].out, CachedPosts(gens[g].prop))
                     \/ /\ gens[g].mode = "store"
                        /\ gens[g].idx = 0
                        /\ IsPrefix(gens[g].out \o gens[g].queue, persisted))
    /\ [][\A g \in NeighborGens :
             gens[g].pc # "fresh" => gens'[g].mode = gens[g].mode]_vars

(* C20 witness: a sequence in store mode has ended having yielded a        *)
(* persisted neighbour, while the property holds a neighbour staged after  *)
(* the sequence started that it has not yielded.                           *)
C20_Witness ==
    \E g \in NeighborGens :
        /\ gens[g].mode = "store"
        /\ gens[g].pc = "done"
        /\ gens[g].out # <<>>
        /\ nprops[gens[g].prop].conns # <<>>
        /\ \A i \in 1..Len(gens[g].out) :
               gens[g].out[i] \notin Range(CachedPosts(gens[g].prop))

(* C14: with a non-empty cache Neighbor.get yields, for any filters, the   *)
(* post endpoints of all cached relations in staging order and nothing     *)
(* else, whatever the store holds for the owner.                           *)
C14_CacheModeYieldsStagedPosts ==
    \A o \in HasNeighbor, kw \in Filters :
        LET p == NeighborOf(o)
        IN  nprops[p].conns # <<>> =>
                /\ NeighborGet(p, kw) = CachedPosts(p)
                /\ Len(NeighborGet(p, kw)) = Len(nprops[p].conns)

(* C14 witness: two neighbours are staged, a third relation of the owner   *)
(* is persisted, and get with a filter yields the two staged ones in       *)
(* staging order.                                                          *)
C14_Witness ==
    \E o \in HasNeighbor :
        LET p == NeighborOf(o)
        IN  /\ CachedPosts(p) = <<"AVBL", "AVAL">>
            /\ \E i \in PreAt(nprops[p].owner) : InScope(store[i], nprops[p].context)
            /\ NeighborGet(p, [syntype |-> "send"]) = <<"AVBL", "AVAL">>

(* The k-th smallest element of a set of positions. *)
Nth(S, k) == CHOOSE i \in S : Cardinality({j \in S : j < i}) = k - 1

(* C15: with an empty cache Neighbor.get yields the post endpoint of every *)
(* persisted relation whose pre endpoint is the owner, that matches the    *)
(* filters and lies in the property's context, in the store's order, and   *)
(* nothing else.                                                           *)
C15_StoreModeYieldsPersistedPosts ==
    \A o \in HasNeighbor, kw \in Filters :
        LET p == NeighborOf(o)
            self == nprops[p]
            hits == {i \in PreAt(self.owner) :
                        /\ kw.syntype \in {Unbound, store[i].syntype}
                        /\ InScope(store[i], self.context)}
            got == NeighborGet(p, kw)
        IN  self.conns = <<>> =>
                /\ Len(got) = Cardinality(hits)
                /\ \A k \in 1..Len(got) : got[k] = store[Nth(hits, k)].post

(* C15 witness: a property bound to a context, with an empty cache, whose  *)
(* owner has a persisted relation in that context and one in another       *)
(* context with another post endpoint; get yields the first one's only.    *)
C15_Witness ==
    \E o \in HasNeighbor :
        LET p == NeighborOf(o)
            self == nprops[p]
        IN  /\ self.conns = <<>>
            /\ self.context # NoCtx
            /\ \E i \in PreAt(self.owner), j \in PreAt(self.owner) :
                   /\ store[i].ctx = self.context
                   /\ store[j].ctx # self.context
                   /\ store[i].post # store[j].post
                   /\ NeighborGet(p, NoFilter) = <<store[i].post>>

(* What ConnectionProperty p answers to get and count. *)
ConnectionAnswers(p) ==
    [get |-> [d \in Directions, kw \in Filters |-> ConnectionGet(p, d, kw)],
     count |-> [d \in Directions, kw \in Filters |-> ConnectionCount(p, d, kw)]]

(* C16: Neighbor.set(other) appends exactly one relation, with the owner   *)
(* as pre and other as post endpoint, to the cache of that Neighbor        *)
(* property and returns it; the store, every ConnectionProperty cache and  *)
(* every other Neighbor cache are unchanged, and so is what the owner's    *)
(* ConnectionProperty answers to get and count and what every other        *)
(* Neighbor property answers to get.                                       *)
C16_NeighborSetStagesLocally ==
    [][\A o \in Objects, x \in Names, k \in SetKinds :
          NeighborSet(o, x, k) =>
              LET p == NeighborOf(o)
                  c == nprops'[p].conns[Len(nprops'[p].conns)]
              IN  /\ Len(nprops'[p].conns) = Len(nprops[p].conns) + 1
                  /\ SubSeq(nprops'[p].conns, 1, Len(nprops[p].conns)) = nprops[p].conns
                  /\ c.pre = nprops[p].owner /\ c.post = x
                  /\ c = NeighborSetResult(o, x, k)
                  /\ \A q \in 1..Len(nprops) : q # p => nprops'[q] = nprops[q]
                  /\ Len(nprops') = Len(nprops)
                  /\ UNCHANGED <<store, cprops, objs>>
                  /\ ConnectionAnswers(ConnectionOf(o))' = ConnectionAnswers(ConnectionOf(o))
                  /\ \A q \in HasNeighbor, kw \in Filters :
                         NeighborOf(q) # p =>
                             NeighborGet(NeighborOf(q), kw)' = NeighborGet(NeighborOf(q), kw)]_vars

(* C16 witness: an owner has a staged neighbour that its Neighbor.get      *)
(* yields, while its ConnectionProperty yields and counts nothing and has  *)
(* no fact of it.                                                          *)
C16_Witness ==
    \E o \in HasNeighbor :
        /\ NeighborGet(NeighborOf(o), NoFilter) = <<"AVBL">>
        /\ nprops[NeighborOf(o)].conns # <<>>
        /\ ConnectionGet(ConnectionOf(o), "either", NoFilter) = <<>>
        /\ ConnectionCount(ConnectionOf(o), "either", NoFilter) = 0
        /\ ConnectionTriples(ConnectionOf(o)) = <<>>
        /\ store = <<>>

(* C17: ConnectionProperty.set(relation) appends the relation to the cache *)
(* of that property and does nothing else: the store is unchanged, get and *)
(* count of the property answer as before for every direction and filter,  *)
(* and triples() of the property gains the relation's facts.               *)
C17_ConnectionSetRegistersOnly ==
    [][\A o \in Objects, conn \in ConnValues :
          ConnectionSet(o, conn) =>
              LET p == ConnectionOf(o)
              IN  /\ cprops'[p].conns = Append(cprops[p].conns, conn)
                  /\ \A q \in 1..Len(cprops) : q # p => cprops'[q] = cprops[q]
                  /\ Len(cprops') = Len(cprops)
                  /\ UNCHANGED <<store, nprops, objs>>
                  /\ ConnectionAnswers(p)' = ConnectionAnswers(p)
                  /\ conn \notin Range(ConnectionGet(p, "either", NoFilter))'
                  /\ ConnectionTriples(p)' = ConnectionTriples(p) \o ConnTriples(conn)]_vars

(* C17 witness: a relation is registered on a property whose owner has a   *)
(* persisted relation; get yields the persisted one only, and triples()    *)
(* has the facts of the registered one.                                    *)
C17_Witness ==
    \E o \in HasNeighbor :
        LET p == ConnectionOf(o)
        IN  /\ Len(cprops[p].conns) = 1
            /\ Len(ConnectionGet(p, "either", NoFilter)) = 1
            /\ ConnectionCount(p, "either", NoFilter) = 1
            /\ cprops[p].conns[1] \notin Range(ConnectionGet(p, "either", NoFilter))
            /\ ConnectionTriples(p) = ConnTriples(cprops[p].conns[1])

(* C19: contextualize(context) builds a proxy exactly when the entity has  *)
(* a neighbor property.  Without one the result is the base entity's       *)
(* contextualization, no proxy and no new property object; with one the    *)
(* result is a NeuronProxy over the contextualized base entity, holding    *)
(* the entity's neighbor property and its connection property each         *)
(* contextualized to context.                                              *)
C19_ProxyIffNeighbor ==
    [][\A o \in Objects, ctx \in Contexts :
          Contextualize(o, ctx) =>
              LET res == objs'[Len(objs')]
              IN  /\ Len(objs') = Len(objs) + 1
                  /\ (res.kind = "NeuronProxy") <=> (objs[o].neighbor # NoProp)
                  /\ objs[o].neighbor = NoProp =>
                         /\ res = BaseContextualize(o, ctx)
                         /\ res.neighbor = NoProp /\ res.connection = NoProp
                         /\ UNCHANGED <<nprops, cprops>>
                  /\ objs[o].neighbor # NoProp =>
                         /\ [res EXCEPT !.kind = "Ctxd", !.neighbor = NoProp,
                                        !.connection = NoProp] = BaseContextualize(o, ctx)
                         /\ res.neighbor \in 1..Len(nprops')
                         /\ res.connection \in 1..Len(cprops')
                         /\ nprops'[res.neighbor].context = ctx
                         /\ nprops'[res.neighbor].owner = nprops[objs[o].neighbor].owner
                         /\ cprops'[res.connection].context = ctx
                         /\ cprops'[res.connection].owner = cprops[objs[o].connection].owner]_vars

(* C19 witness: one entity has been contextualized before its properties   *)
(* were attached, giving no proxy, and after, giving a proxy.              *)
C19_Witness ==
    \E o \in Neurons, q \in Objects, r \in Proxies :
        /\ objs[q].kind = "Ctxd" /\ objs[q].wrapped = o
        /\ objs[q].neighbor = NoProp
        /\ objs[r].wrapped = o
        /\ nprops[objs[r].neighbor].context = objs[r].context
        /\ cprops[objs[r].connection].context = objs[r].context

====
